---- MODULE Spec2Model ----
(***************************************************************************)
(* Macon: the `template` tagged-template processor of src/main.js and its  *)
(* refresh() operation, with the part of the DOM / jQuery behaviour the    *)
(* function relies on (parse, find, replaceWith, contents, empty, append,  *)
(* the live attribute list of an element).                                 *)
(*                                                                         *)
(* HTML text is a sequence of tokens, a DOM node is a record with an       *)
(* identity, and the whole closure of one template call is a record `w`    *)
(* (the "world") that the operators thread through, because callbacks may  *)
(* call refresh() while a build is running.                                *)
(***************************************************************************)
EXTENDS Integers, Sequences, FiniteSets, TLC

VARIABLES strings, args, references, componentInstance, env, clock, hist

vars == <<strings, args, references, componentInstance, env, clock, hist>>

\* ------------------------------------------------------------------ bounds
MaxItems == 2
MaxAttrs == 2
MaxClock == 12

\* ------------------------------------------------------------- HTML tokens
Tok(t, a, b) == [t |-> t, a |-> a, b |-> b]
Open(tag) == Tok("open", tag, "")
Attr(name, value) == Tok("attr", name, value)
Gt == Tok("gt", "", "")
Close(tag) == Tok("close", tag, "")
Text(s) == Tok("text", s, "")

\* `<b data-slot-index=${index}></b>`
Marker(index) == <<Open("b"), Attr("data-slot-index", ToString(index)), Gt, Close("b")>>

\* --------------------------------------------------------------- DOM nodes
Id(k, n, j) == [k |-> k, n |-> n, j |-> j]
NoId == Id("none", 0, 0)
Elem(tag, id, attrs, kids) ==
    [type |-> "elem", tag |-> tag, id |-> id, attrs |-> attrs, kids |-> kids, text |-> <<>>]
TextNode(pieces) ==
    [type |-> "text", tag |-> "#text", id |-> NoId, attrs |-> <<>>, kids |-> <<>>, text |-> pieces]

RECURSIVE Concat(_)
Concat(ss) == IF ss = <<>> THEN <<>> ELSE Head(ss) \o Concat(Tail(ss))

HasAttr(node, name) == \E k \in DOMAIN node.attrs : node.attrs[k].name = name
AttrValue(node, name) ==
    node.attrs[CHOOSE k \in DOMAIN node.attrs : node.attrs[k].name = name].value

\* element.setAttribute(name, value): overwrite in place or add at the end
SetAttribute(attrs, name, value) ==
    IF \E k \in DOMAIN attrs : attrs[k].name = name
    THEN [k \in DOMAIN attrs |->
            IF attrs[k].name = name THEN [name |-> name, value |-> value] ELSE attrs[k]]
    ELSE Append(attrs, [name |-> name, value |-> value])

RemoveAt(s, i) == SubSeq(s, 1, i - 1) \o SubSeq(s, i + 1, Len(s))

\* F of the value v, with v computed once
With(v, F(_)) == CHOOSE y \in {F(x) : x \in {v}} : TRUE

\* --------------------------------------------------------------- $(html)
\* A child arriving in an open element (or at top level): adjacent text is one
\* text node, as the HTML parser produces it.
AddNode(nodes, node) ==
    IF /\ node.type = "text"
       /\ nodes # <<>>
       /\ nodes[Len(nodes)].type = "text"
    THEN [nodes EXCEPT ![Len(nodes)].text = @ \o node.text]
    ELSE Append(nodes, node)

RECURSIVE ParseTokens(_, _, _, _, _)
\* toks: the tokens left; stack: the open elements, innermost last; out: the
\* finished top-level nodes; b: the build the nodes belong to; j: elements
\* created so far (their identity within the build).
ParseTokens(toks, stack, out, b, j) ==
    With([toks |-> toks, stack |-> stack, out |-> out, b |-> b, j |-> j], LAMBDA p :
      IF p.toks = <<>> THEN p.out
      ELSE
        LET tk == Head(p.toks)
            rest == Tail(p.toks)
            d == Len(p.stack)
        IN  CASE tk.t = "open" ->
                   ParseTokens(rest, Append(p.stack, Elem(tk.a, Id("p", p.b, p.j + 1), <<>>, <<>>)),
                               p.out, p.b, p.j + 1)
              [] tk.t = "attr" ->
                   IF d = 0 \/ HasAttr(p.stack[d], tk.a)
                   THEN ParseTokens(rest, p.stack, p.out, p.b, p.j)
                   ELSE ParseTokens(rest,
                          [p.stack EXCEPT ![d].attrs = Append(@, [name |-> tk.a, value |-> tk.b])],
                          p.out, p.b, p.j)
              [] tk.t = "gt" -> ParseTokens(rest, p.stack, p.out, p.b, p.j)
              [] tk.t = "close" ->
                   IF d = 0 THEN ParseTokens(rest, p.stack, p.out, p.b, p.j)
                   ELSE IF d = 1
                   THEN ParseTokens(rest, <<>>, AddNode(p.out, p.stack[1]), p.b, p.j)
                   ELSE ParseTokens(rest,
                          [SubSeq(p.stack, 1, d - 1) EXCEPT ![d - 1].kids = AddNode(@, p.stack[d])],
                          p.out, p.b, p.j)
              [] OTHER ->  \* text
                   IF d = 0
                   THEN ParseTokens(rest, p.stack, AddNode(p.out, TextNode(<<tk.a>>)), p.b, p.j)
                   ELSE ParseTokens(rest,
                          [p.stack EXCEPT ![d].kids = AddNode(@, TextNode(<<tk.a>>))],
                          p.out, p.b, p.j))

\* $(html) keeps the markup up to its last `>`: text after the last root is
\* not part of the collection
RECURSIVE DropTrailingText(_)
DropTrailingText(nodes) ==
    IF nodes # <<>> /\ nodes[Len(nodes)].type = "text"
    THEN DropTrailingText(SubSeq(nodes, 1, Len(nodes) - 1))
    ELSE nodes

Parse(html, b) == DropTrailingText(ParseTokens(html, <<>>, <<>>, b, 0))

\* ------------------------------------------------------- interpolated values
Val(k, f, s, n) == [k |-> k, f |-> f, s |-> s, n |-> n]
Str(s) == Val("str", "", s, <<>>)          \* a string, as its markup tokens
Num(v) == Val("num", "", <<Text(ToString(v))>>, <<>>)
Fn(f) == Val("fn", f, <<>>, <<>>)           \* a callback, by name
Jq(nodes) == Val("jq", "", <<>>, nodes)     \* a jQuery object (a component)
Arr(nodes) == Val("arr", "", <<>>, nodes)   \* an array of one-node jQuery objects
Dom(node) == Val("dom", "", <<>>, <<node>>) \* a bare DOM element
Undefined == Val("undef", "", <<>>, <<>>)

\* what `prev + value` appends for a value that is not a function
ToStr(value) ==
    CASE value.k \in {"str", "num"} -> value.s
      [] value.k = "dom" -> <<Text("[object HTMLDivElement]")>>
      [] value.k = "jq" -> <<Text("[object Object]")>>
      [] value.k = "undef" -> <<Text("undefined")>>
      [] OTHER -> <<>>

\* ------------------------------------------------------------ tree helpers
RECURSIVE Below(_)
\* the elements of a forest in document order
Below(nodes) ==
    IF nodes = <<>> THEN <<>>
    ELSE (IF Head(nodes).type = "elem" THEN <<Head(nodes)>> ELSE <<>>)
         \o Below(Head(nodes).kids) \o Below(Tail(nodes))

\* an insertion that copies: the node also stays where it was
RemoveIdsKeepsAll(nodes, ids) == nodes

RECURSIVE RemoveIds(_, _)
\* a node that is inserted somewhere leaves the place where it was
RemoveIds(nodes, ids) ==
    IF nodes = <<>> THEN <<>>
    ELSE IF Head(nodes).id \in ids THEN RemoveIds(Tail(nodes), ids)
    ELSE <<[Head(nodes) EXCEPT !.kids = RemoveIds(@, ids)]>> \o RemoveIds(Tail(nodes), ids)

RECURSIVE ReplaceNode(_, _, _)
\* parent.replaceChild(content, node) for the node with this identity
ReplaceNode(nodes, id, content) ==
    IF nodes = <<>> THEN <<>>
    ELSE IF Head(nodes).id = id THEN content \o Tail(nodes)
    ELSE <<[Head(nodes) EXCEPT !.kids = ReplaceNode(@, id, content)]>>
         \o ReplaceNode(Tail(nodes), id, content)

NodeIds(nodes) == {nodes[k].id : k \in DOMAIN nodes} \ {NoId}

\* component.find(`b[data-slot-index]`): descendants of the roots only
IsMarker(node) == node.type = "elem" /\ node.tag = "b" /\ HasAttr(node, "data-slot-index")
find(component) ==
    SelectSeq(Below(Concat([k \in DOMAIN component |-> component[k].kids])), IsMarker)

\* $(this).data("slotIndex"): a numeric attribute string is read as a number
SlotIndex(node, n) ==
    LET s == AttrValue(node, "data-slot-index")
    IN  IF \E i \in 0..n : ToString(i) = s
        THEN CHOOSE i \in 0..n : ToString(i) = s
        ELSE -1

\* ------------------------------------------------- the closure of one call
\* w.strings, w.args: the template; w.references: the Map of line 23;
\* w.componentInstance: the live collection (<<>> until template returns);
\* w.env: what the callbacks close over; w.clock: source of fresh identities;
\* w.log: what the running operation did, in order.
Ev(e, b, i, v, n, t, keys) ==
    [e |-> e, b |-> b, i |-> i, v |-> v, n |-> n, t |-> t, keys |-> keys]
Log(w, ev) == [w EXCEPT !.log = Append(@, ev)]

MapSet(map, key, value) ==
    [k \in DOMAIN map \cup {key} |-> IF k = key THEN value ELSE map[k]]

\* ------------------------------------------------ the caller's callbacks
ItemPool == <<"Wheat", "Eggs", "Milk">>
ItemName(k) == IF k <= Len(ItemPool) THEN ItemPool[k] ELSE "new item !"
\* items.map((item) => template`<li>${item}</li>`), made at time t
LiItems(n, t) ==
    [k \in 1..n |-> Elem("li", Id("li", t, k), <<>>, <<TextNode(<<ItemName(k)>>)>>)]

AttrPool == <<"class", "id", "title", "lang", "dir">>
\* the first n attributes, as markup inside the root's tag
AttrMarkup(n) == [k \in 1..n |-> Attr(AttrPool[k], "v")]

\* ------------------------------------------------------------ src/main.js
RECURSIVE Call(_, _), createReference(_, _, _, _), reduce(_, _, _, _)
RECURSIVE each(_, _, _, _, _), buildComponent(_), refresh(_)

\* value(): the callbacks the templates of this model use.
\*   itemsOrText  the reactive list of the documentation's PageComponent
\*   items        the same without the "No items" branch
\*   attrs        a string of attributes for the root's tag
\*   count        () => state.mutableValue, a number
\*   recipe       the README's RecipeLoaderComponent: markup or "Loading..."
\*   reenter      a list that also calls component.refresh() (once, not from
\*                its own nested refresh, and not before template returns)
Call(w0, f) ==
    With(w0, LAMBDA w :
      LET t == w.clock + 1
          w1 == [w EXCEPT !.clock = t]
      IN  CASE f = "itemsOrText" ->
                 [w |-> w1,
                  ret |-> IF w.env.items > 0 THEN Arr(LiItems(w.env.items, t))
                          ELSE Str(<<Text("No items")>>)]
            [] f = "items" -> [w |-> w1, ret |-> Arr(LiItems(w.env.items, t))]
            [] f = "attrs" -> [w |-> w1, ret |-> Str(AttrMarkup(w.env.nattr))]
            [] f = "count" -> [w |-> w1, ret |-> Num(w.env.items)]
            [] f = "recipe" ->
                 [w |-> w1,
                  ret |-> IF w.env.items > 0
                          THEN Str(<<Open("div"), Gt, Text(ItemName(w.env.items)), Close("div")>>)
                          ELSE Str(<<Text("Loading...")>>)]
            [] OTHER ->  \* reenter
                 IF w.componentInstance # <<>> /\ ~w.env.busy
                 THEN With(refresh([w1 EXCEPT !.env.busy = TRUE]), LAMBDA w2 :
                        [w |-> [w2 EXCEPT !.env.busy = FALSE, !.clock = w2.clock + 1],
                         ret |-> Arr(LiItems(w.env.items, w2.clock + 1))])
                 ELSE [w |-> w1, ret |-> Arr(LiItems(w.env.items, t))])

\* createReference without the test of lines 40-42: every callback result is
\* recorded and gets a marker
createReferenceAlwaysMarker(w, b, value, index) ==
    IF value.k = "fn"
    THEN With(Call(w, value.f), LAMBDA c :
           LET evaluated == c.ret
               w1 == Log(c.w, Ev("eval", b, index, evaluated, <<>>, <<>>, {}))
           IN  [w |-> Log([w1 EXCEPT !.references = MapSet(@, index, evaluated)],
                          Ev("set", b, index, evaluated, <<>>, <<>>, {})),
                out |-> Marker(index)])
    ELSE IF value.k \in {"jq", "arr"}
    THEN [w |-> w, out |-> Marker(index)]
    ELSE [w |-> w, out |-> ToStr(value)]

createReference(w, b, value, index) ==
    IF value.k = "fn"
    THEN With(Call(w, value.f), LAMBDA c :
           LET evaluated == c.ret
               w1 == Log(c.w, Ev("eval", b, index, evaluated, <<>>, <<>>, {}))
           IN  IF evaluated.k = "str"
               THEN [w |-> w1, out |-> evaluated.s]
               ELSE [w |-> Log([w1 EXCEPT !.references = MapSet(@, index, evaluated)],
                               Ev("set", b, index, evaluated, <<>>, <<>>, {})),
                     out |-> Marker(index)])
    ELSE IF value.k \in {"jq", "arr"}
    THEN [w |-> w, out |-> Marker(index)]
    ELSE [w |-> w, out |-> ToStr(value)]

getReferenceValue(w, value, index) ==
    IF index \in DOMAIN w.references THEN w.references[index] ELSE value

\* args.reduce((prev, value, i) => prev + createReference(value, i) + strings[i + 1], strings[0])
\* from argument i on (i counts from 1 here, the index of the code is i - 1)
reduce(w0, b, prev0, i) ==
    With([w |-> w0, prev |-> prev0], LAMBDA p :
      IF i > Len(p.w.args) THEN [w |-> p.w, html |-> p.prev]
      ELSE With(createReference(p.w, b, p.w.args[i], i - 1), LAMBDA c :
             reduce(c.w, b, p.prev \o c.out \o p.w.strings[i + 1], i + 1)))

\* The content jQuery's replaceWith(value) inserts: the nodes of a collection
\* or array (moved, not copied), a string parsed as markup, a number as text,
\* nothing for undefined; a function is called and its result is inserted.
Content(w, value) ==
    With(IF value.k = "fn" THEN Call(w, value.f) ELSE [w |-> w, ret |-> value], LAMBDA c :
      IF c.ret.k \in {"str", "num"}
      THEN [w |-> [c.w EXCEPT !.clock = @ + 1],
            nodes |-> ParseTokens(c.ret.s, <<>>, <<>>, c.w.clock + 1, 0)]
      ELSE [w |-> c.w, nodes |-> c.ret.n])

\* $(this).replaceWith(value) for the marker `this` of the new component
replaceWith(w, component, this, value) ==
    With(Content(w, value), LAMBDA c :
      LET moved == NodeIds(c.nodes)
      IN  [w |-> [c.w EXCEPT !.componentInstance = RemoveIds(@, moved)],
           component |-> ReplaceNode(RemoveIds(component, moved), this.id, c.nodes),
           nodes |-> c.nodes])

\* .each(function () {...}) over the markers found, from marker k on
each(w0, b, component0, markers, k) ==
    With([w |-> w0, component |-> component0], LAMBDA p :
      IF k > Len(markers) THEN p
      ELSE LET this == markers[k]
               index == SlotIndex(this, Len(p.w.args))
               arg == IF index + 1 \in DOMAIN p.w.args THEN p.w.args[index + 1] ELSE Undefined
               value == getReferenceValue(p.w, arg, index)
           IN  With(replaceWith(p.w, p.component, this, value), LAMBDA r :
                 each(Log(r.w, Ev("resolve", b, index, value, r.nodes, <<>>, DOMAIN p.w.references)),
                      b, r.component, markers, k + 1)))

\* buildComponent without references.clear()
buildComponentKeepsTable(w0) ==
    With(w0, LAMBDA w :
      LET b == w.clock + 1
          w1 == Log([w EXCEPT !.clock = b], Ev("build", b, 0, Undefined, <<>>, <<>>, {}))
      IN  With(reduce(w1, b, w.strings[1], 1), LAMBDA a :
          With(Parse(a.html, b), LAMBDA component :
          With(find(component), LAMBDA markers :
          With(each(Log(a.w, Ev("html", b, 0, Undefined, component, a.html, DOMAIN a.w.references)),
                    b, component, markers, 1), LAMBDA r :
            [w |-> Log(r.w, Ev("built", b, 0, Undefined, r.component, <<>>, {})),
             component |-> r.component])))))

buildComponent(w0) ==
    With(w0, LAMBDA w :
      LET b == w.clock + 1
          w1 == Log([w EXCEPT !.clock = b], Ev("build", b, 0, Undefined, <<>>, <<>>, {}))
      IN  With(reduce(w1, b, w.strings[1], 1), LAMBDA a :
          With(Parse(a.html, b), LAMBDA component :
          With(find(component), LAMBDA markers :
          With(each(Log(a.w, Ev("html", b, 0, Undefined, component, a.html, DOMAIN a.w.references)),
                    b, component, markers, 1), LAMBDA r :
            [w |-> Log([r.w EXCEPT !.references = <<>>],
                       Ev("built", b, 0, Undefined, r.component, <<>>, {})),
             component |-> r.component])))))

\* The attributes of an element are a live list: the first loop looks at
\* position 0, 1, 2, ... of the list as it is after each removal.
RECURSIVE RemoveLoop(_, _)
RemoveLoop(attrs0, i) ==
    With(attrs0, LAMBDA attrs :
      IF i > Len(attrs) THEN attrs ELSE RemoveLoop(RemoveAt(attrs, i), i + 1))

RECURSIVE SetLoop(_, _, _)
SetLoop(source, attrs0, i) ==
    With(attrs0, LAMBDA attrs :
      IF i > Len(source) THEN attrs
      ELSE SetLoop(source, SetAttribute(attrs, source[i].name, source[i].value), i + 1))

\* the attributes of destinationDOM afterwards
copyAttributes(sourceDOM, destinationDOM) ==
    SetLoop(sourceDOM.attrs, RemoveLoop(destinationDOM.attrs, 1), 1)

\* updatedComponent.contents(): the children of every root
contents(component) == Concat([k \in DOMAIN component |-> component[k].kids])

\* an empty() that removes nothing
emptyKeepsChildren(component) == component

\* .empty()
empty(component) == [k \in DOMAIN component |-> [component[k] EXCEPT !.kids = <<>>]]

RECURSIVE Clone(_)
Clone(nodes) ==
    [k \in DOMAIN nodes |->
        [nodes[k] EXCEPT !.id = IF @ = NoId THEN @ ELSE Id("clone", @.n, @.j),
                         !.kids = Clone(@)]]

\* .append(content): the last root receives the nodes, the others copies
append(component, content) ==
    [k \in DOMAIN component |->
        [component[k] EXCEPT !.kids = @ \o (IF k = Len(component) THEN content ELSE Clone(content))]]

\* a refresh that hands out the newly built structure instead of filling the
\* live one
refreshReplacesRoot(w) ==
    With(buildComponent(w), LAMBDA r :
      [Log(r.w, Ev("empty", 0, 0, Undefined, Below(contents(r.w.componentInstance)), <<>>, {}))
         EXCEPT !.componentInstance = r.component])

refresh(w) ==
    With(buildComponent(w), LAMBDA r :
      LET updatedComponent == r.component
          updatedChildren == contents(updatedComponent)
          live == r.w.componentInstance
      IN  With(append(empty(live), updatedChildren), LAMBDA filled :
            [Log(r.w, Ev("empty", 0, 0, Undefined, Below(contents(live)), <<>>, {}))
               EXCEPT !.componentInstance =
                        [filled EXCEPT ![1].attrs = copyAttributes(updatedComponent[1], filled[1])]]))

\* template(strings, ...args): the closure after the call returned
template(ss, aa, e) ==
    With(buildComponent([strings |-> ss, args |-> aa, references |-> <<>>,
                         componentInstance |-> <<>>, env |-> e, clock |-> 0, log |-> <<>>]),
         LAMBDA r : [r.w EXCEPT !.componentInstance = r.component])

\* ---------------------------------------------------------------- inputs
\* template`<button id="nextBtn" type="button">Next</button>`, built before
Button ==
    Elem("button", Id("pre", 1, 1),
         <<[name |-> "id", value |-> "nextBtn"], [name |-> "type", value |-> "button"]>>,
         <<TextNode(<<"Next">>)>>)
\* document.createElement('div')
MyNode == Elem("div", Id("pre", 2, 1), <<>>, <<>>)

Tpl(ss, aa) == [strings |-> ss, args |-> aa]

\* README, Usage: <main><div class="button-container">${component}</div></main>
TplUsage ==
    Tpl(<< <<Open("main"), Gt, Open("div"), Attr("class", "button-container"), Gt>>,
           <<Close("div"), Close("main")>> >>,
        <<Jq(<<Button>>)>>)
\* the documentation's PageComponent: a static list, a reactive list, a child
TplPage ==
    Tpl(<< <<Open("main"), Gt, Open("h1"), Gt, Text("Static Items"), Close("h1"), Open("ul"), Gt>>,
           <<Close("ul"), Open("h1"), Gt, Text("Reactive Items"), Close("h1"), Open("ul"), Gt>>,
           <<Close("ul"), Open("h1"), Gt, Text("Child to parent communication"), Close("h1")>>,
           <<Close("main")>> >>,
        <<Arr(LiItems(2, 0)), Fn("itemsOrText"), Jq(<<Button>>)>>)
\* <button type="button" ${'id="addBtn"'}>Hello, ${"World"} !</button>
TplHello ==
    Tpl(<< <<Open("button"), Attr("type", "button")>>,
           <<Gt, Text("Hello, ")>>,
           <<Text(" !"), Close("button")>> >>,
        <<Str(<<Attr("id", "addBtn")>>), Str(<<Text("World")>>)>>)
\* <div ${() => attributes}>Elapsed seconds : ${() => state.mutableValue}</div>
TplChrono ==
    Tpl(<< <<Open("div")>>, <<Gt, Text("Elapsed seconds : ")>>, <<Close("div")>> >>,
        <<Fn("attrs"), Fn("count")>>)
\* README, RecipeLoaderComponent: <div>${() => isLoaded ? markup : "Loading..."}</div>
TplRecipe ==
    Tpl(<< <<Open("div"), Gt>>, <<Close("div")>> >>, <<Fn("recipe")>>)
\* README, API, "Appended": <div>${myNode}</div>
TplAppended ==
    Tpl(<< <<Open("div"), Gt>>, <<Close("div")>> >>, <<Dom(MyNode)>>)
\* a component that is only its child: ${component}
TplWrap ==
    Tpl(<< <<>>, <<>> >>, <<Jq(<<Button>>)>>)
\* a component after a heading, two roots: <h1>Title</h1>${component}
TplTitled ==
    Tpl(<< <<Open("h1"), Gt, Text("Title"), Close("h1")>>, <<>> >>, <<Jq(<<Button>>)>>)
\* a reactive list whose second callback refreshes the component: <ul>${..}${..}</ul>
TplReenterLast ==
    Tpl(<< <<Open("ul"), Gt>>, <<>>, <<Close("ul")>> >>, <<Fn("items"), Fn("reenter")>>)
TplReenterFirst ==
    Tpl(<< <<Open("ul"), Gt>>, <<>>, <<Close("ul")>> >>, <<Fn("reenter"), Fn("items")>>)

\* the templates whose fragments are one root element around the values
RootedTemplates == {TplUsage, TplPage, TplHello, TplChrono, TplRecipe, TplAppended}
Templates == RootedTemplates \cup {TplWrap, TplTitled}
ReentrantTemplates == {TplReenterLast, TplReenterFirst}

Envs == [items : 0..MaxItems, nattr : 0..MaxAttrs, busy : {FALSE}]

\* ----------------------------------------------------------- state machine
World ==
    [strings |-> strings, args |-> args, references |-> references,
     componentInstance |-> componentInstance, env |-> env, clock |-> clock, log |-> <<>>]

Install(w, op) ==
    /\ strings' = w.strings
    /\ args' = w.args
    /\ references' = w.references
    /\ componentInstance' = w.componentInstance
    /\ env' = w.env
    /\ clock' = w.clock
    /\ hist' = [op |-> op, prevOp |-> hist.op, before |-> componentInstance, log |-> w.log]

InitFrom(tpls) ==
    \E tpl \in tpls, e \in Envs :
        \E w \in {template(tpl.strings, tpl.args, e)} :
            /\ strings = w.strings
            /\ args = w.args
            /\ references = w.references
            /\ componentInstance = w.componentInstance
            /\ env = w.env
            /\ clock = w.clock
            /\ hist = [op |-> "template", prevOp |-> "none", before |-> <<>>, log |-> w.log]

Init == InitFrom(Templates)
InitRooted == InitFrom(RootedTemplates)
InitReentrant == InitFrom(Templates \cup ReentrantTemplates)

\* component.refresh()
Refresh ==
    /\ clock < MaxClock
    /\ \E w \in {refresh(World)} : Install(w, "refresh")

\* the caller changes what the callbacks close over: items.push(...)
Push ==
    /\ env.items < MaxItems
    /\ Install([World EXCEPT !.env.items = @ + 1], "mutate")

\* items.length = 0
Clear ==
    /\ env.items > 0
    /\ Install([World EXCEPT !.env.items = 0], "mutate")

\* the state the attribute callback reads changes
SetAttrs ==
    \E n \in 0..MaxAttrs :
        /\ n # env.nattr
        /\ Install([World EXCEPT !.env.nattr = n], "mutate")

Next == Refresh \/ Push \/ Clear \/ SetAttrs

Spec == Init /\ [][Next]_vars
SpecRooted == InitRooted /\ [][Next]_vars
SpecReentrant == InitReentrant /\ [][Next]_vars

\* ------------------------------------------------- vocabulary of the claims
Built == hist.op \in {"template", "refresh"}        \* a build has just run
Refreshed == hist.op = "refresh"
\* a single-root template: the collection has one root, and it is the element
\* the literal fragments open and close
SingleRoot ==
    /\ Len(componentInstance) = 1
    /\ strings[1] # <<>> /\ strings[1][1].t = "open"

Events(e) == SelectSeq(hist.log, LAMBDA ev : ev.e = e)
TopBuild == Events("build")[1].b
\* the structure the outermost build returned, and as parsed before resolution
BuiltComponent == LET evs == Events("built") IN evs[Len(evs)].n
HtmlEvent == LET evs == SelectSeq(hist.log, LAMBDA ev : ev.e = "html" /\ ev.b = TopBuild) IN evs[1]
\* what the callback at index i returned to createReference in the outermost build
Returned(i) ==
    (SelectSeq(hist.log, LAMBDA ev : ev.e = "eval" /\ ev.b = TopBuild /\ ev.i = i))[1].v
Current(i) == IF args[i].k = "fn" THEN Returned(i - 1) ELSE args[i]

AllIds(nodes) == LET els == Below(nodes) IN {els[k].id : k \in DOMAIN els}
Count(id, nodes) == LET els == Below(nodes) IN Cardinality({k \in DOMAIN els : els[k].id = id})
AttrSet(node) == {node.attrs[k] : k \in DOMAIN node.attrs}

RECURSIVE Shape(_)
\* a forest without the identities of its nodes and the order of attributes
Shape(nodes) ==
    [k \in DOMAIN nodes |->
        [tag |-> nodes[k].tag, text |-> nodes[k].text,
         attrs |-> AttrSet(nodes[k]), kids |-> Shape(nodes[k].kids)]]

\* A structure written out again as markup; a node that was built elsewhere
\* (a component, a list item, a DOM element) is written as a reference to it.
Item(tok) == [t |-> tok.t, a |-> tok.a, b |-> tok.b, id |-> NoId]
Ref(node) == [t |-> "ref", a |-> "", b |-> "", id |-> node.id]
Items(toks) == [k \in DOMAIN toks |-> Item(toks[k])]
RECURSIVE Serialize(_)
Serialize(nodes) ==
    IF nodes = <<>> THEN <<>>
    ELSE LET h == Head(nodes)
         IN  (IF h.type = "text" THEN [k \in DOMAIN h.text |-> Item(Text(h.text[k]))]
              ELSE IF h.id.k \in {"pre", "li"} THEN <<Ref(h)>>
              ELSE <<Item(Open(h.tag))>>
                   \o [k \in DOMAIN h.attrs |-> Item(Attr(h.attrs[k].name, h.attrs[k].value))]
                   \o <<Item(Gt)>> \o Serialize(h.kids) \o <<Item(Close(h.tag))>>)
             \o Serialize(Tail(nodes))
Repr(value) ==
    IF value.k \in {"jq", "arr", "dom"} THEN [k \in DOMAIN value.n |-> Ref(value.n[k])]
    ELSE Items(value.s)
RECURSIVE Interleave(_)
\* the fragments with every value at the place of its interpolation, from i on
Interleave(i) ==
    IF i > Len(args) THEN <<>>
    ELSE Repr(Current(i)) \o Items(strings[i + 1]) \o Interleave(i + 1)
Expected == Items(strings[1]) \o Interleave(1)
\* the same between the root's opening tag and its closing tag
ExpectedContents ==
    LET k == CHOOSE k \in DOMAIN Expected :
                 Expected[k].t = "gt" /\ \A j \in 1..(k - 1) : Expected[j].t # "gt"
    IN  SubSeq(Expected, k + 1, Len(Expected) - 1)

\* ------------------------------------------------------------------ claims

\* C1: refresh() keeps the component instance and its root node: after every
\* step the collection has the same roots (same identity, same element) as
\* before; only the root's children and attributes change.
RootIdentityPreserved ==
    [][/\ Len(componentInstance') = Len(componentInstance)
       /\ \A k \in DOMAIN componentInstance :
            /\ componentInstance'[k].id = componentInstance[k].id
            /\ componentInstance'[k].tag = componentInstance[k].tag]_vars
\* a refresh that gave the root other children
RefreshChangedChildren ==
    /\ Refreshed
    /\ Shape(contents(componentInstance)) # Shape(contents(hist.before))

\* C2: after refresh() the (name, value) attributes of the live root are
\* exactly those of the newly built root, whatever the live root had before.
RootAttributesOverwritten ==
    Refreshed => AttrSet(componentInstance[1]) = AttrSet(BuiltComponent[1])

\* C3: in a single-root template with a callback that returns an array of
\* built components, a refresh calls the callback against the state of that
\* moment, and the root's content is then the fragments and the other values
\* as before with the new array's components at the callback's place.
IsListCallback(i) == args[i].k = "fn" /\ args[i].f \in {"itemsOrText", "items"}
ReactiveListReplaced ==
    (Refreshed /\ SingleRoot) =>
        \A i \in DOMAIN args :
            (IsListCallback(i) /\ Returned(i - 1).k = "arr") =>
                /\ Shape(Returned(i - 1).n) = Shape(LiItems(env.items, 0))
                /\ AllIds(Returned(i - 1).n) \cap AllIds(hist.before) = {}
                /\ Serialize(contents(componentInstance)) = ExpectedContents
\* the list was refreshed after it grew
ReactiveListGrew ==
    /\ Refreshed /\ SingleRoot
    /\ \E i \in DOMAIN args :
         /\ IsListCallback(i) /\ Returned(i - 1).k = "arr"
         /\ Cardinality(AllIds(Returned(i - 1).n)) = MaxItems
         /\ Cardinality(AllIds(hist.before)) < Cardinality(AllIds(componentInstance))

\* C4: a pre-built component that is interpolated is in the structure build
\* returns, the very node, at the place of its interpolation.
ComponentAtItsPlace ==
    (hist.op = "template" /\ \E i \in DOMAIN args : args[i].k = "jq") =>
        /\ \A i \in DOMAIN args :
             args[i].k = "jq" => \A k \in DOMAIN args[i].n :
                                    Count(args[i].n[k].id, componentInstance) = 1
        /\ Serialize(componentInstance) = Expected

\* C5: a second refresh() without a change of state in between leaves the
\* instance as the first left it (same children, same root attributes), and
\* no placeholder marker is in the instance after either.
NoMarkerIn(nodes) == \A k \in DOMAIN Below(nodes) : ~IsMarker(Below(nodes)[k])
RefreshIdempotent ==
    (Refreshed /\ hist.prevOp = "refresh") =>
        /\ Shape(componentInstance) = Shape(hist.before)
        /\ NoMarkerIn(componentInstance)
        /\ NoMarkerIn(hist.before)

\* C6: an interpolated DOM node, node collection or array is a placeholder
\* marker with its index in the assembled HTML and is live content of the
\* result; it is never text in the HTML.
IsNodeLike(value) == value.k \in {"jq", "arr", "dom"}
RECURSIVE Assembled(_)
Assembled(i) ==
    IF i > Len(args) THEN <<>>
    ELSE (IF IsNodeLike(args[i]) \/ (args[i].k = "fn" /\ Returned(i - 1).k # "str")
          THEN Marker(i - 1) ELSE Current(i).s)
         \o strings[i + 1] \o Assembled(i + 1)
NodeLikeBecomesMarker ==
    (Built /\ \E i \in DOMAIN args : IsNodeLike(args[i])) =>
        /\ HtmlEvent.t = strings[1] \o Assembled(1)
        /\ \A i \in DOMAIN args :
             IsNodeLike(args[i]) => AllIds(args[i].n) \subseteq AllIds(BuiltComponent)

\* C7: a callback that returns the string s builds what the plain string s
\* builds at that place: the string is in the HTML, no marker with that index
\* is, and the reference table never gets an entry for that index.
PlainArgs ==
    [i \in DOMAIN args |->
        IF args[i].k = "fn" /\ Returned(i - 1).k = "str" THEN Returned(i - 1) ELSE args[i]]
ReturnsString(i) == args[i].k = "fn" /\ Returned(i - 1).k = "str"
StringCallbackIsString ==
    (Built /\ \E i \in DOMAIN args : ReturnsString(i)) =>
        /\ \A i \in DOMAIN args :
             ReturnsString(i) =>
                /\ \A k \in DOMAIN hist.log :
                     ~(hist.log[k].e = "set" /\ hist.log[k].i = i - 1)
                /\ \A k \in DOMAIN hist.log :
                     hist.log[k].e = "resolve" => (i - 1) \notin hist.log[k].keys
                /\ \A k \in DOMAIN HtmlEvent.t :
                     HtmlEvent.t[k] # Attr("data-slot-index", ToString(i - 1))
        /\ HtmlEvent.t = strings[1] \o Assembled(1)
        /\ Shape(BuiltComponent) =
             Shape(buildComponent([World EXCEPT !.args = PlainArgs]).component)
\* a refresh in which a callback returned markup as a string
CallbackReturnedMarkup ==
    /\ Refreshed
    /\ \E i \in DOMAIN args :
         /\ ReturnsString(i)
         /\ \E k \in DOMAIN Returned(i - 1).s : Returned(i - 1).s[k].t = "open"

\* C8: after the resolution pass no placeholder marker is left anywhere in
\* the structure, and every marker that was parsed was replaced by the table
\* entry of its index if there was one and by the interpolated value if not.
ParsedMarkers == SelectSeq(Below(HtmlEvent.n), IsMarker)
EveryMarkerResolved ==
    Built =>
        /\ NoMarkerIn(BuiltComponent)
        /\ \A m \in DOMAIN ParsedMarkers :
             LET index == SlotIndex(ParsedMarkers[m], Len(args))
             IN  \E k \in DOMAIN hist.log :
                    /\ hist.log[k].e = "resolve" /\ hist.log[k].i = index
                    /\ hist.log[k].v = (IF index \in HtmlEvent.keys
                                        THEN Returned(index) ELSE args[index + 1])

\* C9: a pre-built component C interpolated in a single-root template is,
\* after any number of refreshes, once in the live instance, at its place,
\* and is never among the nodes a refresh empties out of the instance.
RECURSIVE EmptiedIds(_)
EmptiedIds(evs) == IF evs = <<>> THEN {} ELSE {Head(evs).n[k].id : k \in DOMAIN Head(evs).n}
                                              \cup EmptiedIds(Tail(evs))
ChildComponentKept ==
    SingleRoot =>
        \A i \in DOMAIN args :
            args[i].k = "jq" =>
                \A k \in DOMAIN args[i].n :
                    /\ Count(args[i].n[k].id, componentInstance) = 1
                    /\ args[i].n[k].id \notin EmptiedIds(Events("empty"))
                    /\ Built => Serialize(contents(componentInstance)) = ExpectedContents
\* two refreshes in a row of a template with a child component
ChildSurvivedRefreshes ==
    /\ Refreshed /\ hist.prevOp = "refresh" /\ SingleRoot
    /\ \E i \in DOMAIN args : args[i].k = "jq"

\* C10: the reference table is shared. It is empty whenever no build runs;
\* a build that ran without a nested build resolved with every entry it
\* recorded; a build in which a callback refreshed the component resolved
\* without any entry it had recorded before that nested build.
Pos(e, b) == CHOOSE k \in DOMAIN hist.log : hist.log[k].e = e /\ hist.log[k].b = b
BuildIds == {hist.log[k].b : k \in {j \in DOMAIN hist.log : hist.log[j].e = "build"}}
NestedIn(b) == {c \in BuildIds : Pos("build", b) < Pos("build", c) /\ Pos("built", c) < Pos("html", b)}
SharedTable ==
    /\ references = <<>>
    /\ \A b \in BuildIds :
         LET keys == hist.log[Pos("html", b)].keys
             sets == {k \in DOMAIN hist.log : hist.log[k].e = "set" /\ hist.log[k].b = b}
         IN  \A k \in sets :
                hist.log[k].i \in keys <=> \A c \in NestedIn(b) : Pos("built", c) < k
\* the outer build put in the place of a marker something its callback did
\* not return in that build
OuterBuildResolvedOtherValue ==
    /\ Refreshed
    /\ \E k \in DOMAIN hist.log :
         /\ hist.log[k].e = "resolve" /\ hist.log[k].b = TopBuild
         /\ args[hist.log[k].i + 1].k = "fn"
         /\ hist.log[k].n # Returned(hist.log[k].i).n

====
